---- MODULE Spec2Model ----
(***************************************************************************)
(* hexlit: the hex! macro (src/src/lib.rs).  One expansion of              *)
(* hex!(@string arg) is  count_skipped -> require_even_number_digits ->    *)
(* convert.  Both const fns are modelled loop step by loop step; a byte is *)
(* its ASCII code and slices are indexed from 0 as in the source.  A panic *)
(* during const evaluation and the missing HexStringLength impl for an odd *)
(* length both abort the expansion: no array is produced.                  *)
(***************************************************************************)
EXTENDS Integers, Sequences, FiniteSets

VARIABLES input, pc, char_index, next_index, char_count, RAW_LENGTH,
          data, data_index, written, err

vars == <<input, pc, char_index, next_index, char_count, RAW_LENGTH,
          data, data_index, written, err>>

\* Longest input text explored.
MaxLen == 5

\* The bytes inputs are drawn from: '0' 'a' 'F' (digits), 'x' 'X' (prefix
\* letters), '_' '"' (delimiters), 'z' (no hex digit).
Alphabet == {48, 97, 70, 120, 88, 95, 34, 122}

\* '0' 'a' and the six delimiters ' ' '"' '_' '|' '-' '\n'.
DelimAlphabet == {48, 97, 32, 34, 95, 124, 45, 10}

RECURSIVE Texts(_, _)
Texts(n, alphabet) ==
    IF n = 0 THEN {<<>>}
    ELSE LET shorter == Texts(n - 1, alphabet)
         IN  shorter \cup {Append(t, c) : t \in {u \in shorter : Len(u) = n - 1},
                                          c \in alphabet}

\* data[i] of a Rust slice (0-based); callers test i < data.len() first.
At(bytes, i) == bytes[i + 1]

-----------------------------------------------------------------------------
(* internals                                                               *)

\* is_valid_delimiter with the b'\n' alternative left out.
is_valid_delimiter_no_newline(c) == c \in {32, 34, 95, 124, 45}

\* matches!(c, b' ' | b'"' | b'_' | b'|' | b'-' | b'\n')
is_valid_delimiter(c) == c \in {32, 34, 95, 124, 45, 10}

\* to_ordinal with the + 10 of the lower-case arm left out.
to_ordinal_no_offset(c) ==
    IF c >= 48 /\ c <= 57 THEN c - 48
    ELSE IF c >= 65 /\ c <= 70 THEN c - 65 + 10
    ELSE IF c >= 97 /\ c <= 102 THEN c - 97
    ELSE -1

\* to_ordinal: the digit's value; -1 stands for the "Invalid hex digit."
\* panic of the catch-all arm.
to_ordinal(c) ==
    IF c >= 48 /\ c <= 57 THEN c - 48
    ELSE IF c >= 65 /\ c <= 70 THEN c - 65 + 10
    ELSE IF c >= 97 /\ c <= 102 THEN c - 97 + 10
    ELSE -1

\* The program state as a record, and the state a macro expansion starts in.
Start ==
    [pc |-> "count_skipped_loop", char_index |-> 0, next_index |-> 0,
     char_count |-> 0, RAW_LENGTH |-> 0, data |-> <<>>, data_index |-> 0,
     written |-> {}, err |-> "none"]

Panic(s, where, what) == [s EXCEPT !.pc = where, !.err = what]

\* count_skipped, outer loop: the while test, the if test, the else branch
\* and the return.
count_skipped_loop(bytes, s) ==
    IF s.char_index < Len(bytes)
    THEN IF s.char_index + 1 < Len(bytes)
            /\ ~is_valid_delimiter(At(bytes, s.char_index))
         THEN [s EXCEPT !.next_index = s.char_index + 1,
                        !.pc = "count_skipped_scan"]
         ELSE [s EXCEPT !.char_index = s.char_index + 1,
                        !.char_count = s.char_count + 1]
    ELSE [s EXCEPT !.pc = "hex"]

\* count_skipped, inner loop over the delimiters after data[char_index].
count_skipped_scan(bytes, s) ==
    IF s.next_index < Len(bytes) /\ is_valid_delimiter(At(bytes, s.next_index))
    THEN [s EXCEPT !.char_count = s.char_count + 1,
                   !.next_index = s.next_index + 1]
    ELSE [s EXCEPT !.pc = "count_skipped_prefix"]

\* count_skipped's prefix step counting three bytes for a 0x/0X marker.
count_skipped_prefix_three(bytes, s) ==
    IF At(bytes, s.char_index) = 48
    THEN IF s.next_index >= Len(bytes)
         THEN Panic(s, "count_skipped_panic", "input index out of bounds")
         ELSE IF At(bytes, s.next_index) = 120 \/ At(bytes, s.next_index) = 88
              THEN [s EXCEPT !.char_count = s.char_count + 3,
                             !.char_index = s.next_index + 1,
                             !.pc = "count_skipped_loop"]
              ELSE [s EXCEPT !.char_index = s.next_index + 1,
                             !.pc = "count_skipped_loop"]
    ELSE [s EXCEPT !.char_index = s.next_index + 1,
                   !.pc = "count_skipped_loop"]

\* count_skipped's prefix step not counting the 0x/0X marker at all.
count_skipped_prefix_uncounted(bytes, s) ==
    IF At(bytes, s.char_index) = 48 /\ s.next_index >= Len(bytes)
    THEN Panic(s, "count_skipped_panic", "input index out of bounds")
    ELSE [s EXCEPT !.char_index = s.next_index + 1,
                   !.pc = "count_skipped_loop"]

\* count_skipped, the 0x/0X test and the advance past the pair.  && and ||
\* short-circuit: data[next_index] is read only after data[char_index] == b'0'.
count_skipped_prefix(bytes, s) ==
    IF At(bytes, s.char_index) = 48
    THEN IF s.next_index >= Len(bytes)
         THEN Panic(s, "count_skipped_panic", "input index out of bounds")
         ELSE IF At(bytes, s.next_index) = 120 \/ At(bytes, s.next_index) = 88
              THEN [s EXCEPT !.char_count = s.char_count + 2,
                             !.char_index = s.next_index + 1,
                             !.pc = "count_skipped_loop"]
              ELSE [s EXCEPT !.char_index = s.next_index + 1,
                             !.pc = "count_skipped_loop"]
    ELSE [s EXCEPT !.char_index = s.next_index + 1,
                   !.pc = "count_skipped_loop"]

\* hex!(@string $arg): RAW_LENGTH, require_even_number_digits!, and the entry
\* of convert::<{RAW_LENGTH / 2}, {$arg.len()}> (its three let statements).
hex(bytes, s) ==
    IF s.char_count > Len(bytes)
    THEN Panic(s, "compile_error", "attempt to subtract with overflow")
    ELSE LET raw == Len(bytes) - s.char_count
         IN  IF raw % 2 # 0
             THEN [Panic(s, "compile_error", "odd number of digits")
                       EXCEPT !.RAW_LENGTH = raw]
             ELSE [s EXCEPT !.RAW_LENGTH = raw,
                            !.data = [i \in 1..(raw \div 2) |-> 0],
                            !.data_index = 0,
                            !.char_index = 0,
                            !.next_index = 0,
                            !.pc = "convert_loop"]

\* convert, outer loop: the while test, the if test, the else branch and the
\* return.  STRING_SIZE is $arg.len().
convert_loop(bytes, s) ==
    LET STRING_SIZE == Len(bytes)
    IN  IF s.data_index < STRING_SIZE /\ s.char_index + 1 < STRING_SIZE
        THEN IF ~is_valid_delimiter(At(bytes, s.char_index))
             THEN [s EXCEPT !.next_index = s.char_index + 1,
                            !.pc = "convert_scan"]
             ELSE [s EXCEPT !.char_index = s.char_index + 1]
        ELSE [s EXCEPT !.pc = "done"]

\* convert, inner loop over the delimiters after input[char_index].
convert_scan(bytes, s) ==
    LET STRING_SIZE == Len(bytes)
    IN  IF s.next_index < STRING_SIZE /\ is_valid_delimiter(At(bytes, s.next_index))
        THEN [s EXCEPT !.next_index = s.next_index + 1]
        ELSE [s EXCEPT !.pc = "convert_pair"]

\* convert's pair step recognizing only the lower-case 0x marker.
convert_pair_lower_x_only(bytes, s) ==
    LET hi      == At(bytes, s.char_index)
        inside  == s.next_index < Len(bytes)
        advance == [s EXCEPT !.char_index = s.next_index + 1,
                             !.pc = "convert_loop"]
    IN  IF hi = 48 /\ ~inside
        THEN Panic(s, "convert_panic", "input index out of bounds")
        ELSE IF hi = 48 /\ At(bytes, s.next_index) = 120
        THEN advance
        ELSE IF to_ordinal(hi) = -1
        THEN Panic(s, "convert_panic", "Invalid hex digit.")
        ELSE IF ~inside
        THEN Panic(s, "convert_panic", "input index out of bounds")
        ELSE IF to_ordinal(At(bytes, s.next_index)) = -1
        THEN Panic(s, "convert_panic", "Invalid hex digit.")
        ELSE IF s.data_index >= Len(s.data)
        THEN Panic(s, "convert_panic", "data index out of bounds")
        ELSE [advance EXCEPT
                 !.data = [s.data EXCEPT ![s.data_index + 1] =
                              to_ordinal(hi) * 16 + to_ordinal(At(bytes, s.next_index))],
                 !.written = s.written \cup {s.data_index},
                 !.data_index = s.data_index + 1]

\* convert, one pair: the 0x/0X test, the two to_ordinal calls, the store
\* into data and the advance.  The assigned value is evaluated before the
\* assignee data[data_index].
convert_pair(bytes, s) ==
    LET hi      == At(bytes, s.char_index)
        inside  == s.next_index < Len(bytes)
        advance == [s EXCEPT !.char_index = s.next_index + 1,
                             !.pc = "convert_loop"]
    IN  IF hi = 48 /\ ~inside
        THEN Panic(s, "convert_panic", "input index out of bounds")
        ELSE IF hi = 48 /\ (At(bytes, s.next_index) = 120 \/ At(bytes, s.next_index) = 88)
        THEN advance
        ELSE IF to_ordinal(hi) = -1
        THEN Panic(s, "convert_panic", "Invalid hex digit.")
        ELSE IF ~inside
        THEN Panic(s, "convert_panic", "input index out of bounds")
        ELSE IF to_ordinal(At(bytes, s.next_index)) = -1
        THEN Panic(s, "convert_panic", "Invalid hex digit.")
        ELSE IF s.data_index >= Len(s.data)
        THEN Panic(s, "convert_panic", "data index out of bounds")
        ELSE [advance EXCEPT
                 !.data = [s.data EXCEPT ![s.data_index + 1] =
                              to_ordinal(hi) * 16 + to_ordinal(At(bytes, s.next_index))],
                 !.written = s.written \cup {s.data_index},
                 !.data_index = s.data_index + 1]

Final == {"done", "compile_error", "count_skipped_panic", "convert_panic"}

\* One step of the expansion from state s.
Step(bytes, s) ==
    CASE s.pc = "count_skipped_loop"   -> count_skipped_loop(bytes, s)
      [] s.pc = "count_skipped_scan"   -> count_skipped_scan(bytes, s)
      [] s.pc = "count_skipped_prefix" -> count_skipped_prefix(bytes, s)
      [] s.pc = "hex"                  -> hex(bytes, s)
      [] s.pc = "convert_loop"         -> convert_loop(bytes, s)
      [] s.pc = "convert_scan"         -> convert_scan(bytes, s)
      [] s.pc = "convert_pair"         -> convert_pair(bytes, s)
      [] OTHER                         -> s

RECURSIVE Run(_, _)
Run(bytes, s) == IF s.pc \in Final THEN s ELSE Run(bytes, Step(bytes, s))

\* What an expansion of hex!(@string ..) on the text leaves: the array, or
\* nothing when the build fails.
Outcome(s) == IF s.pc = "done" THEN <<"array", s.data>> ELSE <<"no array">>

decode_hex(bytes) == Outcome(Run(bytes, Start))

-----------------------------------------------------------------------------
(* The state machine                                                       *)

cur ==
    [pc |-> pc, char_index |-> char_index, next_index |-> next_index,
     char_count |-> char_count, RAW_LENGTH |-> RAW_LENGTH, data |-> data,
     data_index |-> data_index, written |-> written, err |-> err]

Becomes(s) ==
    /\ pc' = s.pc
    /\ char_index' = s.char_index
    /\ next_index' = s.next_index
    /\ char_count' = s.char_count
    /\ RAW_LENGTH' = s.RAW_LENGTH
    /\ data' = s.data
    /\ data_index' = s.data_index
    /\ written' = s.written
    /\ err' = s.err
    /\ UNCHANGED input

InitOver(texts) ==
    /\ input \in texts
    /\ pc = Start.pc
    /\ char_index = Start.char_index
    /\ next_index = Start.next_index
    /\ char_count = Start.char_count
    /\ RAW_LENGTH = Start.RAW_LENGTH
    /\ data = Start.data
    /\ data_index = Start.data_index
    /\ written = Start.written
    /\ err = Start.err

\* Every text over Alphabet of at most MaxLen bytes.
Init == InitOver(Texts(MaxLen, Alphabet))

\* Every text of at most MaxLen bytes over two digits and the six delimiters.
InitDelims == InitOver(Texts(MaxLen, DelimAlphabet))

\* "0x" or "0X" followed by any text over Alphabet of at most MaxLen bytes.
InitPrefix == InitOver({<<48, p>> \o t : p \in {120, 88}, t \in Texts(MaxLen, Alphabet)})

CountSkippedLoop   == pc = "count_skipped_loop"   /\ Becomes(count_skipped_loop(input, cur))
CountSkippedScan   == pc = "count_skipped_scan"   /\ Becomes(count_skipped_scan(input, cur))
CountSkippedPrefix == pc = "count_skipped_prefix" /\ Becomes(count_skipped_prefix(input, cur))
Hex                == pc = "hex"                  /\ Becomes(hex(input, cur))
ConvertLoop        == pc = "convert_loop"         /\ Becomes(convert_loop(input, cur))
ConvertScan        == pc = "convert_scan"         /\ Becomes(convert_scan(input, cur))
ConvertPair        == pc = "convert_pair"         /\ Becomes(convert_pair(input, cur))

Next ==
    \/ CountSkippedLoop
    \/ CountSkippedScan
    \/ CountSkippedPrefix
    \/ Hex
    \/ ConvertLoop
    \/ ConvertScan
    \/ ConvertPair

Spec == Init /\ [][Next]_vars

SpecDelims == InitDelims /\ [][Next]_vars

SpecPrefix == InitPrefix /\ [][Next]_vars

\* RESULT_SIZE of the convert call: {RAW_LENGTH / 2}.
RESULT_SIZE == RAW_LENGTH \div 2

-----------------------------------------------------------------------------
(* Reference notions of the specification, stated without the code above   *)

\* The six separators of the specification's separator set.
Separators == {32, 95, 124, 45, 34, 10}

HexUpper == <<48, 49, 50, 51, 52, 53, 54, 55, 56, 57, 65, 66, 67, 68, 69, 70>>

HexLower == <<48, 49, 50, 51, 52, 53, 54, 55, 56, 57, 97, 98, 99, 100, 101, 102>>

HexDigits == {HexUpper[i] : i \in 1..16} \cup {HexLower[i] : i \in 1..16}

\* The value of a hex digit, upper and lower case alike.
Value(c) == CHOOSE v \in 0..15 : HexUpper[v + 1] = c \/ HexLower[v + 1] = c

IsSeparator(c) == c \in Separators

IsSignificant(c) == c \notin Separators

\* The text with its separators removed.
Strip(text) == SelectSeq(text, IsSignificant)

Tail2(q) == SubSeq(q, 3, Len(q))

IsPrefixAt(q) == Len(q) >= 2 /\ q[1] = 48 /\ q[2] \in {120, 88}

\* The significant bytes of a separator-free text: its bytes less every
\* 0x/0X marker standing at a digit-pair boundary.
RECURSIVE Significant(_)
Significant(q) ==
    IF Len(q) < 2 THEN q
    ELSE IF IsPrefixAt(q) THEN Significant(Tail2(q))
    ELSE <<q[1], q[2]>> \o Significant(Tail2(q))

\* The number of recognized 0x/0X markers of a separator-free text.
RECURSIVE Prefixes(_)
Prefixes(q) ==
    IF Len(q) < 2 THEN 0
    ELSE IF IsPrefixAt(q) THEN 1 + Prefixes(Tail2(q))
    ELSE Prefixes(Tail2(q))

AllHex(q) == \A i \in 1..Len(q) : q[i] \in HexDigits

\* The digits of a valid input: an optional single leading 0x/0X, then an
\* even number of hex digits, separators anywhere.
DigitsOf(text) == IF IsPrefixAt(Strip(text)) THEN Tail2(Strip(text)) ELSE Strip(text)

IsValid(text) == AllHex(DigitsOf(text)) /\ Len(DigitsOf(text)) % 2 = 0

\* The reference decoding of an even-length digit string.
Reference(d) == [i \in 1..(Len(d) \div 2) |-> 16 * Value(d[2 * i - 1]) + Value(d[2 * i])]

Quoted(text) == <<34>> \o text \o <<34>>

-----------------------------------------------------------------------------
(* Claims                                                                  *)

\* C1: an input with an odd number of significant bytes never yields an
\* array: the expansion fails and convert returns nothing.
OddLengthRejected ==
    Len(Significant(Strip(input))) % 2 = 1 => pc # "done"

\* C2: an input holding a byte outside the accepted set (hex digits,
\* separators, the x/X of a recognized prefix), at any position, never
\* yields an array.
InvalidCharacterRejected ==
    (\E i \in 1..Len(Significant(Strip(input))) :
        Significant(Strip(input))[i] \notin HexDigits) => pc # "done"

\* C3: a valid input decodes, without failure, to the reference bytes of its
\* digits, and the output is half as long as the digit string.
ValidDecodesToReference ==
    IsValid(input) =>
        /\ pc \notin Final \ {"done"}
        /\ pc = "done" => /\ data = Reference(DigitsOf(input))
                          /\ Len(data) * 2 = Len(DigitsOf(input))

ValidDecoded ==
    /\ pc = "done"
    /\ IsValid(input)
    /\ IsPrefixAt(Strip(input))
    /\ Len(Strip(input)) < Len(input)
    /\ \E i \in 1..Len(data) : data[i] = 175

\* C4: a text made of an even-length digit string with separators inserted
\* anywhere decodes successfully to the bytes the digit string alone
\* decodes to.
SeparatorInvariance ==
    (AllHex(Strip(input)) /\ Len(Strip(input)) % 2 = 0 /\ pc \in Final) =>
        /\ pc = "done"
        /\ Outcome(cur) = decode_hex(Strip(input))

SeparatedDecoded ==
    /\ pc = "done"
    /\ Len(data) >= 1
    /\ AllHex(Strip(input))
    /\ IsSeparator(input[1])
    /\ IsSeparator(input[Len(input)])
    /\ \E i \in 2..(Len(input) - 2) :
          ~IsSeparator(input[i - 1]) /\ IsSeparator(input[i]) /\ ~IsSeparator(input[i + 1])

\* C5: "0x" d and "0X" d, for an even-length digit string d, decode to the
\* bytes of d alone; the two prefix bytes are skipped and emit no byte.
PrefixHandling ==
    (/\ IsPrefixAt(input)
     /\ AllHex(Tail2(input))
     /\ Len(Tail2(input)) % 2 = 0
     /\ pc \in Final) =>
        /\ pc = "done"
        /\ Outcome(cur) = decode_hex(Tail2(input))
        /\ char_count = 2
        /\ Cardinality(written) * 2 = Len(Tail2(input))

PrefixDecoded ==
    /\ pc = "done"
    /\ IsPrefixAt(input)
    /\ input[2] = 88
    /\ AllHex(Tail2(input))
    /\ Len(data) = 2

\* C6: a text over digits and separators and the same text wrapped in
\* double quotes have the same outcome.
BareAndQuotedAgree ==
    ((\A i \in 1..Len(input) : input[i] \in HexDigits \cup Separators) /\ pc \in Final) =>
        Outcome(cur) = decode_hex(Quoted(input))

\* C7: count_skipped never fails: it returns a count for every byte
\* sequence.
CountSkippedTotal ==
    pc # "count_skipped_panic"

\* C8: the count count_skipped returns is the number of separators plus 2
\* for each recognized prefix.
SkipCountExact ==
    pc = "hex" =>
        char_count = Len(input) - Len(Strip(input)) + 2 * Prefixes(Strip(input))

\* The bytes count_skipped has consumed so far.
Consumed ==
    IF pc = "count_skipped_loop"
    THEN (IF char_index < Len(input) THEN char_index ELSE Len(input))
    ELSE next_index

\* C9: during the scan the running count never exceeds the bytes consumed
\* so far, on return it is at most input.len(), and the subtraction in hex!
\* does not underflow.
SkipCountBounded ==
    /\ pc \in {"count_skipped_loop", "count_skipped_scan", "count_skipped_prefix"} =>
          char_count <= Consumed /\ Consumed <= Len(input)
    /\ pc = "hex" => char_count <= Len(input)
    /\ err # "attempt to subtract with overflow"

SkipCountReturned ==
    /\ pc = "hex"
    /\ char_count = Len(input)
    /\ Prefixes(Strip(input)) = 1
    /\ Len(Strip(input)) < Len(input)

\* C10 as stated: whenever the parity guard has passed, convert ends having
\* made exactly RESULT_SIZE writes, one to each slot, with every index in
\* bounds.
ConvertWritesAll ==
    pc \in {"done", "convert_panic"} =>
        /\ written = 0..(RESULT_SIZE - 1)
        /\ data_index = RESULT_SIZE

\* C10 amended: once the parity guard has passed, convert either stops on the
\* "Invalid hex digit." panic or returns after exactly RESULT_SIZE writes,
\* one to each slot; in both cases every write index is < RESULT_SIZE and
\* every read index is < input.len().
ConvertWritesAllOrInvalidDigit ==
    /\ pc = "convert_panic" => err = "Invalid hex digit."
    /\ pc = "done" => written = 0..(RESULT_SIZE - 1) /\ data_index = RESULT_SIZE
    /\ pc \in {"convert_loop", "convert_scan", "convert_pair", "convert_panic", "done"} =>
          /\ written = 0..(data_index - 1)
          /\ data_index <= RESULT_SIZE
          /\ Len(data) = RESULT_SIZE
          /\ char_index < Len(input) \/ pc \in {"convert_loop", "done"}
          /\ next_index < Len(input) \/ pc # "convert_pair"

ConvertFilled ==
    /\ pc = "done"
    /\ RESULT_SIZE = 2
    /\ written = {0, 1}
    /\ Len(input) > 2 * RESULT_SIZE

====
